---- MODULE Spec2Model ----
(***************************************************************************)
(* Job lifecycle (orchestrator scheduler, Celery dispatcher, gateway      *)
(* cancel endpoint, agents), the validator's debates and consensus        *)
(* computation, and the test planner.                                     *)
(*                                                                         *)
(* Time is counted in minutes.  Confidences are exact rationals <<n, d>>  *)
(* in lowest terms; IEEE-754 rounding of the Python floats is below the   *)
(* resolution of the model.                                               *)
(***************************************************************************)
EXTENDS Integers, Sequences, FiniteSets, TLC

\* ------------------------------------------------------------------ bounds
MaxJobs == 2
MaxTasks == 2
MaxTicks == 1
MaxPlan == 2
MaxVotes == 3
MaxFindings == 1
MaxAgents == 2
MaxVoteRows == 3
MaxTargets == 6

\* ------------------------------------------------------- program constants
DefaultMaxRetries == 3
SpacingMinutes == 5
BackoffMinutes == 5
TickMinutes == 5

None == "None"

\* a DateTime column that is NULL
NoTime == -1

\* JobStatus enum values
JobStatus == {"queued", "running", "completed", "failed", "cancelled", "retrying"}

\* VoteType enum values
VoteType == {"accept", "reject", "more_info"}

\* The user every gateway request runs as (Depends(lambda: {"sub": "user_1"}))
current_user == "user_1"

\* Project rows: id -> owner_id
Projects == [p1 |-> "user_1"]

ProjectIds == DOMAIN Projects

\* TestCase rows present in the database (seeded from the WSTG catalog)
TestCases == {"WSTG-INFO-01", "WSTG-INPV-05"}

\* Entries a test plan handed to schedule_jobs may carry; the last one names
\* a test case that is not in the database.
PlanEntries ==
    { [wstg_id |-> "WSTG-INFO-01", agent |-> "recon-agent", priority |-> 1],
      [wstg_id |-> "WSTG-INPV-05", agent |-> "fuzz-agent", priority |-> 4],
      [wstg_id |-> "WSTG-NONE-00", agent |-> "fuzz-agent", priority |-> 1] }

\* agent_type arguments of get_next_job; None is the default (no filter)
AgentTypes == {None, "recon", "fuzz"}

\* Job.agent_id LIKE '<agent_type>%'
AgentLike(agent_id, agent_type) ==
    \/ agent_type = "recon" /\ agent_id = "recon-agent"
    \/ agent_type = "fuzz" /\ agent_id = "fuzz-agent"

JobIds == 1..MaxJobs

\* a job id no row of the jobs table ever carries
UnknownJob == MaxJobs + 1

\* FindingStatus enum values
FindingStatus == {"tentative", "validated", "false_positive", "accepted", "fixed"}

\* FindingSeverity enum values
FindingSeverity == {"critical", "high", "medium", "low", "info"}

FindingIds == 1..MaxFindings

\* a finding id no row of the findings table carries
UnknownFinding == MaxFindings + 1

\* agent ids a debate may be held among; the last one names two roles
AgentIds == {"validator-agent-1", "exploit-agent", "recon-agent", "fuzz-agent",
             "recon-validator"}

\* "<word>" in agent_id
InAgentId(word, agent_id) ==
    \/ word = "validator" /\ agent_id \in {"validator-agent-1", "recon-validator"}
    \/ word = "exploit" /\ agent_id = "exploit-agent"
    \/ word = "recon" /\ agent_id \in {"recon-agent", "recon-validator"}

VARIABLES
    jobs,       \* the jobs table: job id -> Job row
    tasks,      \* execute_agent_job Celery tasks, in the order of their creation
    launched,   \* jobs for which the worker accepted a request and runs an agent
    now,        \* datetime.utcnow()
    reply,      \* what the last request handler or query returned
    votes,      \* argument of _calculate_consensus
    consensus,  \* <<result of _calculate_consensus>>, <<>> before the call
    findings,   \* the findings table: finding id -> Finding row
    vote_rows,  \* the votes table, in the order of insertion
    debate,     \* <<what the last debate that ran returned>>, <<>> before
    config,     \* config.get("has_credentials") of the scan request
    targets,    \* len(targets) of the project
    generated_plan  \* <<result of generate_plan>>, <<>> before the call

jobVars == <<jobs, tasks, launched, now, reply>>

consVars == <<votes, consensus>>

debateVars == <<findings, vote_rows, debate>>

planVars == <<config, targets, generated_plan>>

vars == <<jobs, tasks, launched, now, reply, votes, consensus, findings, vote_rows, debate,
          config, targets, generated_plan>>

NoReply == [op |-> None, job |-> 0, outcome |-> None]

\* ------------------------------------------------------------ JobScheduler

\* Job(...) as constructed by schedule_jobs, with the column defaults
NewJob(project_id, tc, t) ==
    [ project_id    |-> project_id,
      test_case     |-> tc.wstg_id,
      agent_id      |-> tc.agent,
      status        |-> "queued",
      priority      |-> tc.priority,
      retries       |-> 0,
      max_retries   |-> DefaultMaxRetries,
      eta           |-> t + tc.priority * SpacingMinutes,
      started_at    |-> NoTime,
      completed_at  |-> NoTime,
      result        |-> None,
      error_message |-> None,
      created_at    |-> t ]

\* The plan entries for which schedule_jobs creates a job
RECURSIVE Schedulable(_)
Schedulable(plan) ==
    IF plan = <<>> THEN <<>>
    ELSE IF Head(plan).wstg_id \in TestCases
         THEN <<Head(plan)>> \o Schedulable(Tail(plan))
         ELSE Schedulable(Tail(plan))

mark_job_running(js, job_id, t) ==
    IF job_id \in DOMAIN js
    THEN [js EXCEPT ![job_id].status = "running",
                    ![job_id].started_at = t]
    ELSE js

mark_job_completed(js, job_id, result, t) ==
    IF job_id \in DOMAIN js
    THEN [js EXCEPT ![job_id].status = "completed",
                    ![job_id].completed_at = t,
                    ![job_id].result = result]
    ELSE js

mark_job_failed_fixed_backoff(js, job_id, error, t) ==
    IF job_id \in DOMAIN js
    THEN LET retries == js[job_id].retries + 1 IN
         IF retries < js[job_id].max_retries
         THEN [js EXCEPT ![job_id].retries = retries,
                         ![job_id].error_message = error,
                         ![job_id].status = "retrying",
                         ![job_id].eta = t + BackoffMinutes]
         ELSE [js EXCEPT ![job_id].retries = retries,
                         ![job_id].error_message = error,
                         ![job_id].status = "failed",
                         ![job_id].completed_at = t]
    ELSE js

mark_job_failed_lenient(js, job_id, error, t) ==
    IF job_id \in DOMAIN js
    THEN LET retries == js[job_id].retries + 1 IN
         IF retries <= js[job_id].max_retries
         THEN [js EXCEPT ![job_id].retries = retries,
                         ![job_id].error_message = error,
                         ![job_id].status = "retrying",
                         ![job_id].eta = t + BackoffMinutes * retries]
         ELSE [js EXCEPT ![job_id].retries = retries,
                         ![job_id].error_message = error,
                         ![job_id].status = "failed",
                         ![job_id].completed_at = t]
    ELSE js

mark_job_failed(js, job_id, error, t) ==
    IF job_id \in DOMAIN js
    THEN LET retries == js[job_id].retries + 1 IN
         IF retries < js[job_id].max_retries
         THEN [js EXCEPT ![job_id].retries = retries,
                         ![job_id].error_message = error,
                         ![job_id].status = "retrying",
                         ![job_id].eta = t + BackoffMinutes * retries]
         ELSE [js EXCEPT ![job_id].retries = retries,
                         ![job_id].error_message = error,
                         ![job_id].status = "failed",
                         ![job_id].completed_at = t]
    ELSE js

\* The rows get_next_job's query selects
NextJobCandidates(js, agent_type) ==
    { j \in DOMAIN js :
        /\ js[j].status = "queued"
        /\ agent_type # None => AgentLike(js[j].agent_id, agent_type) }

\* ORDER BY priority DESC, created_at ASC: the rows that may come first
NextJobFirst(js, agent_type) ==
    { j \in NextJobCandidates(js, agent_type) :
        \A k \in NextJobCandidates(js, agent_type) :
            \/ js[j].priority > js[k].priority
            \/ js[j].priority = js[k].priority /\ js[j].created_at <= js[k].created_at }

\* --------------------------------------------------------------- actions

\* orchestrate_scan's call of schedule_jobs followed by session.commit(), for
\* a project that exists and has a target
schedule_jobs(project_id, test_plan) ==
    LET new == Schedulable(test_plan)
        n == Cardinality(DOMAIN jobs)
    IN  /\ n + Len(new) <= MaxJobs
        /\ jobs' = [j \in 1..(n + Len(new)) |->
                       IF j <= n THEN jobs[j] ELSE NewJob(project_id, new[j - n], now)]
        /\ reply' = [op |-> "schedule_jobs", job |-> Len(new), outcome |-> "ok"]
        /\ UNCHANGED <<tasks, launched, now>>
        /\ UNCHANGED <<consVars, debateVars, planVars>>

get_next_job(agent_type) ==
    /\ \/ /\ NextJobCandidates(jobs, agent_type) = {}
          /\ reply' = [op |-> "get_next_job", job |-> 0, outcome |-> None]
       \/ \E j \in NextJobFirst(jobs, agent_type) :
            reply' = [op |-> "get_next_job", job |-> j, outcome |-> "job"]
    /\ UNCHANGED <<jobs, tasks, launched, now>>
    /\ UNCHANGED <<consVars, debateVars, planVars>>

\* POST /dispatch-job
dispatch_job(job_id) ==
    /\ IF job_id \in DOMAIN jobs
       THEN /\ Len(tasks) < MaxTasks
            /\ jobs' = [jobs EXCEPT ![job_id].status = "queued"]
            /\ tasks' = Append(tasks, [job |-> job_id, pc |-> "delayed"])
            /\ reply' = [op |-> "dispatch_job", job |-> job_id, outcome |-> "ok"]
       ELSE /\ reply' = [op |-> "dispatch_job", job |-> job_id, outcome |-> "404"]
            /\ UNCHANGED <<jobs, tasks>>
    /\ UNCHANGED <<launched, now>>
    /\ UNCHANGED <<consVars, debateVars, planVars>>

\* execute_agent_job.delay(job_id, ...) reaches a worker when the jobs table
\* has no row with that id
execute_agent_job_delay(job_id) ==
    /\ job_id \notin DOMAIN jobs
    /\ Len(tasks) < MaxTasks
    /\ tasks' = Append(tasks, [job |-> job_id, pc |-> "delayed"])
    /\ UNCHANGED <<jobs, launched, now, reply>>
    /\ UNCHANGED <<consVars, debateVars, planVars>>

\* POST /jobs/{job_id}/cancel
cancel_job(job_id) ==
    /\ IF job_id \notin DOMAIN jobs
       THEN /\ reply' = [op |-> "cancel_job", job |-> job_id, outcome |-> "404"]
            /\ UNCHANGED jobs
       ELSE IF Projects[jobs[job_id].project_id] # current_user
       THEN /\ reply' = [op |-> "cancel_job", job |-> job_id, outcome |-> "404"]
            /\ UNCHANGED jobs
       ELSE /\ jobs' = [jobs EXCEPT ![job_id].status = "cancelled"]
            /\ reply' = [op |-> "cancel_job", job |-> job_id, outcome |-> "ok"]
    /\ UNCHANGED <<tasks, launched, now>>
    /\ UNCHANGED <<consVars, debateVars, planVars>>

\* execute_agent_job up to the requests.post call: mark_job_running
execute_start(t) ==
    /\ tasks[t].pc = "delayed"
    /\ jobs' = mark_job_running(jobs, tasks[t].job, now)
    /\ tasks' = [tasks EXCEPT ![t].pc = "posted"]
    /\ UNCHANGED <<launched, now, reply>>
    /\ UNCHANGED <<consVars, debateVars, planVars>>

\* the agent runner starts the agent's container and answers 200
execute_agent(t) ==
    /\ tasks[t].pc = "posted"
    /\ launched' = launched \cup {tasks[t].job}
    /\ tasks' = [tasks EXCEPT ![t].pc = "answered"]
    /\ UNCHANGED <<jobs, now, reply>>
    /\ UNCHANGED <<consVars, debateVars, planVars>>

\* response.status_code == 200: mark_job_completed, return result
execute_success(t) ==
    /\ tasks[t].pc = "answered"
    /\ jobs' = mark_job_completed(jobs, tasks[t].job, "result", now)
    /\ tasks' = [tasks EXCEPT ![t].pc = "returned"]
    /\ UNCHANGED <<launched, now, reply>>
    /\ UNCHANGED <<consVars, debateVars, planVars>>

\* the agent runner answers with another status: mark_job_failed, raise Exception
execute_bad_status(t) ==
    /\ tasks[t].pc = "posted"
    /\ jobs' = mark_job_failed(jobs, tasks[t].job, "bad status", now)
    /\ tasks' = [tasks EXCEPT ![t].pc = "raising"]
    /\ UNCHANGED <<launched, now, reply>>
    /\ UNCHANGED <<consVars, debateVars, planVars>>

\* requests.post raises (timeout, transport error) or response.json() does:
\* the handler calls mark_job_failed and re-raises
execute_post_raises(t) ==
    /\ tasks[t].pc \in {"posted", "answered"}
    /\ jobs' = mark_job_failed(jobs, tasks[t].job, "exception", now)
    /\ tasks' = [tasks EXCEPT ![t].pc = "raised"]
    /\ UNCHANGED <<launched, now, reply>>
    /\ UNCHANGED <<consVars, debateVars, planVars>>

\* the handler catches the Exception raised after the bad status:
\* mark_job_failed with str(e), re-raise
execute_except(t) ==
    /\ tasks[t].pc = "raising"
    /\ jobs' = mark_job_failed(jobs, tasks[t].job, "bad status", now)
    /\ tasks' = [tasks EXCEPT ![t].pc = "raised"]
    /\ UNCHANGED <<launched, now, reply>>
    /\ UNCHANGED <<consVars, debateVars, planVars>>

\* an agent container runs execute(job_id) and writes the job row itself
agent_execute(job_id, ok) ==
    /\ job_id \in launched
    /\ launched' = launched \ {job_id}
    /\ jobs' = IF job_id \notin DOMAIN jobs
               THEN jobs
               ELSE IF ok
               THEN [jobs EXCEPT ![job_id].status = "completed",
                                 ![job_id].result = "agent result"]
               ELSE [jobs EXCEPT ![job_id].status = "failed",
                                 ![job_id].error_message = "agent error"]
    /\ UNCHANGED <<tasks, now, reply>>
    /\ UNCHANGED <<consVars, debateVars, planVars>>

Tick ==
    /\ now < MaxTicks * TickMinutes
    /\ now' = now + TickMinutes
    /\ UNCHANGED <<jobs, tasks, launched, reply>>
    /\ UNCHANGED <<consVars, debateVars, planVars>>

\* ------------------------------------------------------ DebateCoordinator

\* Confidence values the votes handed to the consensus carry:
\* 0.0, 0.2, 0.3, 0.8, 0.9
ConfLevels == {<<0, 1>>, <<1, 5>>, <<3, 10>>, <<4, 5>>, <<9, 10>>}

Max(a, b) == IF a >= b THEN a ELSE b

RECURSIVE GCD(_, _)
GCD(a, b) == IF b = 0 THEN a ELSE GCD(b, a % b)

\* The rational n/d (d > 0) in lowest terms
Rat(n, d) == <<n \div GCD(n, d), d \div GCD(n, d)>>

\* x + y for rationals
RatAdd(x, y) == Rat(x[1] * y[2] + y[1] * x[2], x[2] * y[2])

\* x > y for rationals
RatGt(x, y) == x[1] * y[2] > y[1] * x[2]

\* sum(1 for v in votes if v["vote"] == kind)
RECURSIVE vote_count(_, _)
vote_count(vs, kind) ==
    IF vs = <<>> THEN 0
    ELSE (IF Head(vs).vote = kind THEN 1 ELSE 0) + vote_count(Tail(vs), kind)

RECURSIVE total_confidence_all_votes(_)
total_confidence_all_votes(vs) ==
    IF vs = <<>> THEN <<0, 1>>
    ELSE RatAdd(Head(vs).confidence, total_confidence_all_votes(Tail(vs)))

\* sum(v["confidence"] for v in votes if v["vote"] == "accept")
RECURSIVE total_confidence(_)
total_confidence(vs) ==
    IF vs = <<>> THEN <<0, 1>>
    ELSE RatAdd(IF Head(vs).vote = "accept" THEN Head(vs).confidence ELSE <<0, 1>>,
                total_confidence(Tail(vs)))

avg_confidence_undivided(vs) ==
    total_confidence(vs)

\* total_confidence / max(accept_count, 1)
avg_confidence(vs) ==
    Rat(total_confidence(vs)[1],
        total_confidence(vs)[2] * Max(vote_count(vs, "accept"), 1))

consensus_decision_at_least_half(accept_count, reject_count, total_votes) ==
    IF 2 * accept_count >= total_votes THEN "accept"
    ELSE IF 2 * reject_count >= total_votes THEN "reject"
    ELSE "more_info"

\* the decision of the if/elif/else chain; c > total_votes / 2 is 2 * c > total_votes
consensus_decision(accept_count, reject_count, total_votes) ==
    IF 2 * accept_count > total_votes THEN "accept"
    ELSE IF 2 * reject_count > total_votes THEN "reject"
    ELSE "more_info"

consensus_confidence_same_avg(decision, avg) ==
    IF decision = "accept" THEN avg
    ELSE IF decision = "reject" THEN avg
    ELSE <<1, 2>>

\* the confidence the same chain assigns: avg, 1.0 - avg, 0.5
consensus_confidence(decision, avg) ==
    IF decision = "accept" THEN avg
    ELSE IF decision = "reject" THEN Rat(avg[2] - avg[1], avg[2])
    ELSE <<1, 2>>

calculate_consensus_without_empty_case(vs) ==
    LET accept_count == vote_count(vs, "accept")
        reject_count == vote_count(vs, "reject")
        more_info_count == vote_count(vs, "more_info")
        decision == consensus_decision(accept_count, reject_count, Len(vs))
    IN  [ decision       |-> decision,
          confidence     |-> consensus_confidence(decision, avg_confidence(vs)),
          vote_breakdown |-> [accept |-> accept_count, reject |-> reject_count,
                              more_info |-> more_info_count],
          total_agents   |-> Len(vs) ]

calculate_consensus(vs) ==
    IF vs = <<>>
    THEN [decision |-> "more_info", confidence |-> <<0, 1>>]
    ELSE LET accept_count == vote_count(vs, "accept")
             reject_count == vote_count(vs, "reject")
             more_info_count == vote_count(vs, "more_info")
             decision == consensus_decision(accept_count, reject_count, Len(vs))
         IN  [ decision       |-> decision,
               confidence     |-> consensus_confidence(decision, avg_confidence(vs)),
               vote_breakdown |-> [accept |-> accept_count, reject |-> reject_count,
                                   more_info |-> more_info_count],
               total_agents   |-> Len(vs) ]

\* one call of _calculate_consensus on the votes at hand
consensus_call ==
    /\ consensus = <<>>
    /\ consensus' = <<calculate_consensus(votes)>>
    /\ UNCHANGED votes
    /\ UNCHANGED <<jobVars, debateVars, planVars>>

Votes == [vote : VoteType, confidence : ConfLevels]

VoteLists == UNION { [1..n -> Votes] : n \in 0..MaxVotes }

InitConsensus ==
    /\ jobs = <<>>
    /\ tasks = <<>>
    /\ launched = {}
    /\ now = 0
    /\ reply = NoReply
    /\ votes \in VoteLists
    /\ consensus = <<>>
    /\ findings = <<>>
    /\ vote_rows = <<>>
    /\ debate = <<>>
    /\ config = "absent"
    /\ targets = 1
    /\ generated_plan = <<>>

NextConsensus == consensus_call

SpecConsensus == InitConsensus /\ [][NextConsensus]_vars

\* _simulate_agent_vote: the vote an agent returns for a finding
simulate_agent_vote(agent_id, finding) ==
    IF InAgentId("validator", agent_id)
    THEN [ vote       |-> IF RatGt(finding.confidence, <<7, 10>>) THEN "accept" ELSE "more_info",
           confidence |-> finding.confidence,
           agent_id   |-> agent_id ]
    ELSE IF InAgentId("exploit", agent_id)
    THEN [ vote       |-> IF RatGt(finding.confidence, <<4, 5>>) THEN "accept" ELSE "reject",
           confidence |-> IF RatGt(finding.confidence, <<4, 5>>) THEN <<9, 10>> ELSE <<3, 10>>,
           agent_id   |-> agent_id ]
    ELSE IF InAgentId("recon", agent_id)
    THEN [ vote       |-> IF finding.severity \in {"critical", "high"} THEN "accept" ELSE "more_info",
           confidence |-> <<7, 10>>,
           agent_id   |-> agent_id ]
    ELSE [ vote       |-> IF RatGt(finding.confidence, <<3, 5>>) THEN "accept" ELSE "more_info",
           confidence |-> finding.confidence,
           agent_id   |-> agent_id ]

\* the Vote row stored for a vote on a finding
VoteRow(finding_id, v) ==
    [finding_id |-> finding_id, agent_id |-> v.agent_id, vote |-> v.vote,
     confidence |-> v.confidence]

store_votes_latest_round(rows, finding_id, vs) ==
    SelectSeq(rows, LAMBDA r : r.finding_id # finding_id)
        \o [i \in 1..Len(vs) |-> VoteRow(finding_id, vs[i])]

\* the votes table after session.add(db_vote) for each vote, and commit
store_votes(rows, finding_id, vs) ==
    rows \o [i \in 1..Len(vs) |-> VoteRow(finding_id, vs[i])]

apply_consensus_always(finding, c) ==
    [finding EXCEPT !.status = IF c.decision = "reject" THEN "false_positive" ELSE "validated",
                    !.confidence = c.confidence]

\* the finding after the consensus has been applied to it
apply_consensus(finding, c) ==
    IF c.decision = "accept"
    THEN [finding EXCEPT !.status = "validated", !.confidence = c.confidence]
    ELSE IF c.decision = "reject"
    THEN [finding EXCEPT !.status = "false_positive"]
    ELSE finding

\* DebateCoordinator.initiate_debate(finding_id, agents)
initiate_debate(finding_id, agents) ==
    /\ IF finding_id \notin DOMAIN findings
       THEN /\ reply' = [op |-> "initiate_debate", job |-> 0, outcome |-> "Finding not found"]
            /\ UNCHANGED debateVars
       ELSE LET vs == [i \in 1..Len(agents) |->
                          simulate_agent_vote(agents[i], findings[finding_id])]
                c == calculate_consensus(vs)
                finding == apply_consensus(findings[finding_id], c)
            IN  /\ Len(vote_rows) + Len(agents) <= MaxVoteRows
                /\ vote_rows' = store_votes(vote_rows, finding_id, vs)
                /\ findings' = [findings EXCEPT ![finding_id] = finding]
                /\ debate' = << [ finding_id   |-> finding_id,
                                  votes        |-> vs,
                                  consensus    |-> c,
                                  final_status |-> finding.status ] >>
                /\ reply' = [op |-> "initiate_debate", job |-> 0, outcome |-> "ok"]
    /\ UNCHANGED <<jobs, tasks, launched, now>>
    /\ UNCHANGED <<consVars, planVars>>

\* ValidatorAgent.execute(finding_id); primary and secondary are the results
\* of reproduce_primary and reproduce_secondary
validator_execute(finding_id, primary, secondary) ==
    /\ IF finding_id \notin DOMAIN findings
       THEN UNCHANGED <<findings, vote_rows>>
       ELSE LET cast(vote, confidence) ==
                    Append(vote_rows, [finding_id |-> finding_id,
                                       agent_id   |-> "validator-agent-1",
                                       vote       |-> vote,
                                       confidence |-> confidence])
            IN  /\ Len(vote_rows) < MaxVoteRows
                /\ IF primary /\ secondary
                   THEN /\ vote_rows' = cast("accept", <<19, 20>>)
                        /\ findings' = [findings EXCEPT ![finding_id].status = "validated",
                                                        ![finding_id].confidence = <<19, 20>>]
                   ELSE IF primary \/ secondary
                   THEN /\ vote_rows' = cast("more_info", <<3, 5>>)
                        /\ findings' = [findings EXCEPT ![finding_id].confidence = <<3, 5>>]
                   ELSE /\ vote_rows' = cast("reject", <<1, 5>>)
                        /\ findings' = [findings EXCEPT ![finding_id].status = "false_positive",
                                                        ![finding_id].confidence = <<1, 5>>]
    /\ UNCHANGED <<debate, jobVars, consVars, planVars>>

\* initiate_debate when a session.commit() raises: the first commit (votes)
\* or the second (finding update); the exception leaves through finally
initiate_debate_commit_fails(finding_id, agents, failing_commit) ==
    /\ finding_id \in DOMAIN findings
    /\ LET vs == [i \in 1..Len(agents) |->
                    simulate_agent_vote(agents[i], findings[finding_id])]
       IN  /\ Len(vote_rows) + Len(agents) <= MaxVoteRows
           /\ vote_rows' = IF failing_commit = 1
                           THEN vote_rows
                           ELSE store_votes(vote_rows, finding_id, vs)
    /\ reply' = [op |-> "initiate_debate", job |-> 0, outcome |-> "exception"]
    /\ UNCHANGED <<findings, debate>>
    /\ UNCHANGED <<jobs, tasks, launched, now>>
    /\ UNCHANGED <<consVars, planVars>>

\* values of ValidateRequest.status; the last one is no FindingStatus
RequestStatuses == FindingStatus \cup {"bogus"}

\* POST /findings/{finding_id}/validate
validate_finding(finding_id, status) ==
    /\ IF finding_id \notin DOMAIN findings
       THEN /\ reply' = [op |-> "validate_finding", job |-> 0, outcome |-> "404"]
            /\ UNCHANGED findings
       ELSE IF Projects[findings[finding_id].project_id] # current_user
       THEN /\ reply' = [op |-> "validate_finding", job |-> 0, outcome |-> "404"]
            /\ UNCHANGED findings
       ELSE IF status \notin FindingStatus
       THEN /\ reply' = [op |-> "validate_finding", job |-> 0, outcome |-> "exception"]
            /\ UNCHANGED findings
       ELSE /\ findings' = [findings EXCEPT
                               ![finding_id].status = status,
                               ![finding_id].validated_at =
                                   IF status = "validated" THEN now ELSE @]
            /\ reply' = [op |-> "validate_finding", job |-> 0, outcome |-> "ok"]
    /\ UNCHANGED <<vote_rows, debate>>
    /\ UNCHANGED <<jobs, tasks, launched, now>>
    /\ UNCHANGED <<consVars, planVars>>

\* lists of agents a debate is initiated with
AgentLists == UNION { [1..n -> AgentIds] : n \in 0..MaxAgents }

\* confidences the agents create findings with: 0.5, 0.6, 0.7, 0.75, 0.8,
\* 0.85, 0.9, 0.95
FindingConfLevels ==
    { <<1, 2>>, <<3, 5>>, <<7, 10>>, <<3, 4>>, <<4, 5>>, <<17, 20>>, <<9, 10>>, <<19, 20>> }

\* Finding rows as the agents create them
NewFindings == [project_id : ProjectIds, status : {"tentative"},
                confidence : FindingConfLevels, severity : {"high", "medium"},
                validated_at : {NoTime}]

InitDebate ==
    /\ jobs = <<>>
    /\ tasks = <<>>
    /\ launched = {}
    /\ now = 0
    /\ reply = NoReply
    /\ votes = <<>>
    /\ consensus = <<>>
    /\ findings \in [FindingIds -> NewFindings]
    /\ vote_rows = <<>>
    /\ debate = <<>>
    /\ config = "absent"
    /\ targets = 1
    /\ generated_plan = <<>>

NextDebate ==
    \/ \E f \in FindingIds \cup {UnknownFinding}, agents \in AgentLists :
          initiate_debate(f, agents)
    \/ \E f \in FindingIds \cup {UnknownFinding}, primary \in BOOLEAN, secondary \in BOOLEAN :
          validator_execute(f, primary, secondary)

SpecDebate == InitDebate /\ [][NextDebate]_vars

\* debates whose commits may fail
NextStore ==
    \/ \E f \in FindingIds, agents \in AgentLists : initiate_debate(f, agents)
    \/ \E f \in FindingIds, agents \in AgentLists, failing_commit \in {1, 2} :
          initiate_debate_commit_fails(f, agents, failing_commit)

SpecStore == InitDebate /\ [][NextStore]_vars

\* everything that writes a finding: debates (of one agent), validator runs
\* and the gateway's validate endpoint
NextFindings ==
    \/ \E f \in FindingIds, agents \in {a \in AgentLists : Len(a) = 1} :
          initiate_debate(f, agents)
    \/ \E f \in FindingIds, primary \in BOOLEAN, secondary \in BOOLEAN :
          validator_execute(f, primary, secondary)
    \/ \E f \in FindingIds \cup {UnknownFinding}, status \in RequestStatuses :
          validate_finding(f, status)

SpecFindings == InitDebate /\ [][NextFindings]_vars

\* ------------------------------------------------------------- TestPlanner

\* _load_wstg_test_cases: the catalog, in the order of the list
wstg_test_cases ==
    << [wstg_id |-> "WSTG-INFO-01", category |-> "Information Gathering", agent |-> "recon-agent", priority |-> 1],
       [wstg_id |-> "WSTG-INFO-02", category |-> "Information Gathering", agent |-> "recon-agent", priority |-> 1],
       [wstg_id |-> "WSTG-CONF-01", category |-> "Configuration", agent |-> "recon-agent", priority |-> 2],
       [wstg_id |-> "WSTG-IDNT-01", category |-> "Identity Management", agent |-> "auth-agent", priority |-> 3],
       [wstg_id |-> "WSTG-ATHN-01", category |-> "Authentication", agent |-> "auth-agent", priority |-> 2],
       [wstg_id |-> "WSTG-ATHN-02", category |-> "Authentication", agent |-> "auth-agent", priority |-> 2],
       [wstg_id |-> "WSTG-ATHZ-01", category |-> "Authorization", agent |-> "fuzz-agent", priority |-> 3],
       [wstg_id |-> "WSTG-SESS-01", category |-> "Session Management", agent |-> "session-agent", priority |-> 2],
       [wstg_id |-> "WSTG-INPV-01", category |-> "Input Validation", agent |-> "fuzz-agent", priority |-> 3],
       [wstg_id |-> "WSTG-INPV-02", category |-> "Input Validation", agent |-> "fuzz-agent", priority |-> 3],
       [wstg_id |-> "WSTG-INPV-05", category |-> "Input Validation", agent |-> "fuzz-agent", priority |-> 4],
       [wstg_id |-> "WSTG-INPV-11", category |-> "Input Validation", agent |-> "fuzz-agent", priority |-> 4],
       [wstg_id |-> "WSTG-INPV-12", category |-> "Input Validation", agent |-> "fuzz-agent", priority |-> 4],
       [wstg_id |-> "WSTG-ERRH-01", category |-> "Error Handling", agent |-> "recon-agent", priority |-> 2],
       [wstg_id |-> "WSTG-CRYP-01", category |-> "Cryptography", agent |-> "recon-agent", priority |-> 2] >>

\* what the JSON body of the scan request may carry under "has_credentials"
ConfigValues ==
    {"absent", "null", "false", "true", "0", "1", "empty string", "string",
     "empty list", "list"}

\* bool(config.get("has_credentials", False))
Truthy(value) == value \in {"true", "1", "string", "list"}

\* [tc for tc in tests if tc["category"] in categories]
InCategories(tests, categories) ==
    SelectSeq(tests, LAMBDA tc : tc.category \in categories)

\* [tc["wstg_id"] for tc in tests]
WstgIds(tests) == [i \in 1..Len(tests) |-> tests[i].wstg_id]

select_tests_always_authenticated(value) ==
    InCategories(wstg_test_cases, {"Information Gathering"})
        \o InCategories(wstg_test_cases, {"Authentication", "Session Management"})
        \o InCategories(wstg_test_cases, {"Input Validation"})

\* selected_tests before the sort
select_tests(value) ==
    InCategories(wstg_test_cases, {"Information Gathering"})
        \o (IF Truthy(value)
            THEN InCategories(wstg_test_cases, {"Authentication", "Session Management"})
            ELSE <<>>)
        \o InCategories(wstg_test_cases, {"Input Validation"})

\* one step of the stable sort: x goes behind the entries whose priority is
\* not greater than its own
InsertByPriority(sorted, x) ==
    LET k == Cardinality({i \in DOMAIN sorted : sorted[i].priority <= x.priority})
    IN  SubSeq(sorted, 1, k) \o <<x>> \o SubSeq(sorted, k + 1, Len(sorted))

RECURSIVE sort_by_priority_descending(_)
sort_by_priority_descending(tests) ==
    IF tests = <<>> THEN <<>>
    ELSE LET rest == sort_by_priority_descending(SubSeq(tests, 1, Len(tests) - 1))
             x == tests[Len(tests)]
             k == Cardinality({i \in DOMAIN rest : rest[i].priority >= x.priority})
         IN  SubSeq(rest, 1, k) \o <<x>> \o SubSeq(rest, k + 1, Len(rest))

\* selected_tests.sort(key=lambda x: x["priority"]); list.sort is stable
RECURSIVE sort_by_priority(_)
sort_by_priority(tests) ==
    IF tests = <<>> THEN <<>>
    ELSE InsertByPriority(sort_by_priority(SubSeq(tests, 1, Len(tests) - 1)),
                          tests[Len(tests)])

generate_plan_sessions_in_no_phase(project_id, target_count, value) ==
    LET selected_tests == sort_by_priority(select_tests(value))
    IN  [ project_id |-> project_id,
          target_count |-> target_count,
          test_cases |-> selected_tests,
          estimated_duration_minutes |-> Len(selected_tests) * 5,
          phases |->
            << [ name  |-> "Reconnaissance",
                 tests |-> WstgIds(InCategories(selected_tests, {"Information Gathering"})) ],
               [ name  |-> "Authentication Testing",
                 tests |-> WstgIds(InCategories(selected_tests, {"Authentication"})) ],
               [ name  |-> "Input Validation",
                 tests |-> WstgIds(InCategories(selected_tests, {"Input Validation"})) ] >> ]

\* TestPlanner.generate_plan(project, targets, config)
generate_plan(project_id, target_count, value) ==
    LET selected_tests == sort_by_priority(select_tests(value))
    IN  [ project_id |-> project_id,
          target_count |-> target_count,
          test_cases |-> selected_tests,
          estimated_duration_minutes |-> Len(selected_tests) * 5,
          phases |->
            << [ name  |-> "Reconnaissance",
                 tests |-> WstgIds(InCategories(selected_tests, {"Information Gathering"})) ],
               [ name  |-> "Authentication Testing",
                 tests |-> WstgIds(InCategories(selected_tests,
                                                {"Authentication", "Session Management"})) ],
               [ name  |-> "Input Validation",
                 tests |-> WstgIds(InCategories(selected_tests, {"Input Validation"})) ] >> ]

\* orchestrate_scan's call of generate_plan for a project that has targets
generate_plan_call(project_id) ==
    /\ generated_plan = <<>>
    /\ generated_plan' = <<generate_plan(project_id, targets, config)>>
    /\ UNCHANGED <<config, targets>>
    /\ UNCHANGED <<jobVars, consVars, debateVars>>

InitPlan ==
    /\ jobs = <<>>
    /\ tasks = <<>>
    /\ launched = {}
    /\ now = 0
    /\ reply = NoReply
    /\ votes = <<>>
    /\ consensus = <<>>
    /\ findings = <<>>
    /\ vote_rows = <<>>
    /\ debate = <<>>
    /\ config \in ConfigValues
    /\ targets \in 1..MaxTargets
    /\ generated_plan = <<>>

NextPlan == \E p \in ProjectIds : generate_plan_call(p)

SpecPlan == InitPlan /\ [][NextPlan]_vars

\* ---------------------------------------------------------- specifications

Plans == UNION { [1..n -> PlanEntries] : n \in 1..MaxPlan }

Init ==
    /\ jobs = <<>>
    /\ tasks = <<>>
    /\ launched = {}
    /\ now = 0
    /\ reply = NoReply
    /\ votes = <<>>
    /\ consensus = <<>>
    /\ findings = <<>>
    /\ vote_rows = <<>>
    /\ debate = <<>>
    /\ config = "absent"
    /\ targets = 1
    /\ generated_plan = <<>>

Next ==
    \/ \E p \in ProjectIds, plan \in Plans : schedule_jobs(p, plan)
    \/ \E a \in AgentTypes : get_next_job(a)
    \/ \E j \in JobIds : dispatch_job(j)
    \/ \E j \in JobIds : cancel_job(j)
    \/ \E t \in DOMAIN tasks : execute_start(t)
    \/ \E t \in DOMAIN tasks : execute_agent(t)
    \/ \E t \in DOMAIN tasks : execute_success(t)
    \/ \E t \in DOMAIN tasks : execute_bad_status(t)
    \/ \E t \in DOMAIN tasks : execute_post_raises(t)
    \/ \E t \in DOMAIN tasks : execute_except(t)
    \/ \E j \in JobIds, ok \in BOOLEAN : agent_execute(j, ok)
    \/ Tick

Spec == Init /\ [][Next]_vars

\* What runs without a client asking for it: Celery workers take every
\* delayed task, the agent runner answers or the request times out, the
\* task's handlers run to their end, launched agents run, and time passes.
\* The requests of clients (orchestrate, dispatch, cancel, get_next_job) are
\* under no obligation to come.
Fairness ==
    /\ \A t \in 1..MaxTasks :
          /\ WF_vars(t \in DOMAIN tasks /\ execute_start(t))
          /\ WF_vars(t \in DOMAIN tasks
                       /\ (execute_agent(t) \/ execute_bad_status(t) \/ execute_post_raises(t)))
          /\ WF_vars(t \in DOMAIN tasks /\ (execute_success(t) \/ execute_post_raises(t)))
          /\ WF_vars(t \in DOMAIN tasks /\ execute_except(t))
    /\ WF_vars(\E j \in JobIds, ok \in BOOLEAN : agent_execute(j, ok))
    /\ WF_vars(Tick)

SpecFair == Spec /\ Fairness

\* POST /api/orchestrate/scan for a project that exists and has targets:
\* generate_plan, schedule_jobs, commit
orchestrate_scan(project_id) ==
    schedule_jobs(project_id, generate_plan(project_id, targets, config).test_cases)

\* scans of projects with one or more targets
InitScan ==
    /\ jobs = <<>>
    /\ tasks = <<>>
    /\ launched = {}
    /\ now = 0
    /\ reply = NoReply
    /\ votes = <<>>
    /\ consensus = <<>>
    /\ findings = <<>>
    /\ vote_rows = <<>>
    /\ debate = <<>>
    /\ config \in ConfigValues
    /\ targets \in 1..MaxTargets
    /\ generated_plan = <<>>

NextScan ==
    \/ \E p \in ProjectIds : orchestrate_scan(p)
    \/ Tick

SpecScan == InitScan /\ [][NextScan]_vars

\* the keys of the status_counts dictionary of get_scan_status
StatusKeys == {"queued", "running", "completed", "failed", "cancelled"}

\* session.query(Job).filter(Job.project_id == project_id).all()
ProjectJobs(project_id) == { j \in DOMAIN jobs : jobs[j].project_id = project_id }

\* GET /api/orchestrate/status/{project_id}: status_counts[job.status.value]
\* raises KeyError for a status that is not a key, and the request fails
get_scan_status(project_id) ==
    /\ LET js == ProjectJobs(project_id)
           status_counts == [ s \in StatusKeys |->
                                Cardinality({ j \in js : jobs[j].status = s }) ]
           total_jobs == Cardinality(js)
       IN  reply' = IF \E j \in js : jobs[j].status \notin StatusKeys
                    THEN [ op |-> "get_scan_status", job |-> 0, outcome |-> "exception" ]
                    ELSE [ op |-> "get_scan_status", job |-> 0, outcome |-> "ok",
                           project_id |-> project_id,
                           total_jobs |-> total_jobs,
                           status_counts |-> status_counts,
                           progress_percent |->
                               IF total_jobs > 0
                               THEN Rat(status_counts["completed"] * 100, total_jobs)
                               ELSE <<0, 1>>,
                           is_complete |-> /\ status_counts["queued"] = 0
                                           /\ status_counts["running"] = 0 ]
    /\ UNCHANGED <<jobs, tasks, launched, now>>
    /\ UNCHANGED <<consVars, debateVars, planVars>>

\* Status requests between the steps of scheduled, dispatched and cancelled
\* jobs (no agent runs, no time passes, no agent polls for a job).
NextStatus ==
    \/ \E p \in ProjectIds, plan \in Plans : schedule_jobs(p, plan)
    \/ \E j \in JobIds : dispatch_job(j)
    \/ \E j \in JobIds : cancel_job(j)
    \/ \E t \in DOMAIN tasks : execute_start(t)
    \/ \E t \in DOMAIN tasks : execute_agent(t)
    \/ \E t \in DOMAIN tasks : execute_success(t)
    \/ \E t \in DOMAIN tasks : execute_bad_status(t)
    \/ \E t \in DOMAIN tasks : execute_post_raises(t)
    \/ \E t \in DOMAIN tasks : execute_except(t)
    \/ \E p \in ProjectIds : get_scan_status(p)

SpecStatus == Init /\ [][NextStatus]_vars

\* Requests that name a job or a finding that has no row, over jobs that
\* were scheduled (and possibly cancelled) and findings the agents created.
InitNotFound ==
    /\ jobs = <<>>
    /\ tasks = <<>>
    /\ launched = {}
    /\ now = 0
    /\ reply = NoReply
    /\ votes = <<>>
    /\ consensus = <<>>
    /\ findings \in [FindingIds -> NewFindings]
    /\ vote_rows = <<>>
    /\ debate = <<>>
    /\ config = "absent"
    /\ targets = 1
    /\ generated_plan = <<>>

NextNotFound ==
    \/ \E p \in ProjectIds, plan \in Plans : schedule_jobs(p, plan)
    \/ \E j \in JobIds \cup {UnknownJob} : cancel_job(j)
    \/ execute_agent_job_delay(UnknownJob)
    \/ \E t \in DOMAIN tasks : execute_start(t)
    \/ \E t \in DOMAIN tasks : execute_agent(t)
    \/ \E t \in DOMAIN tasks : execute_success(t)
    \/ \E t \in DOMAIN tasks : execute_bad_status(t)
    \/ \E t \in DOMAIN tasks : execute_post_raises(t)
    \/ \E t \in DOMAIN tasks : execute_except(t)
    \/ \E ok \in BOOLEAN : agent_execute(UnknownJob, ok)
    \/ \E agents \in AgentLists : initiate_debate(UnknownFinding, agents)

SpecNotFound == InitNotFound /\ [][NextNotFound]_vars

\* ------------------------------------------------------------ properties

Terminal == {"completed", "failed", "cancelled"}

\* The transitions of the documented job state machine
Transitions ==
    { <<"queued", "running">>, <<"running", "completed">>, <<"running", "retrying">>,
      <<"retrying", "queued">>, <<"running", "failed">>,
      <<"queued", "cancelled">>, <<"running", "cancelled">> }

\* C1: every job has retries <= max_retries, and a job whose retries equal
\* max_retries has status failed.
C1_RetriesBounded ==
    \A j \in DOMAIN jobs :
        /\ jobs[j].retries <= jobs[j].max_retries
        /\ jobs[j].retries = jobs[j].max_retries => jobs[j].status = "failed"

\* C2: of the dispatchers started for one job, only the one that finds it
\* queued marks it running and calls the worker; a job that is already
\* running is not dispatched a second time.
C2_SingleDispatch ==
    [][\A t \in DOMAIN tasks :
          (tasks[t].pc = "delayed" /\ tasks'[t].pc = "posted")
              => jobs[tasks[t].job].status # "running"]_vars

\* C3: the job get_next_job returns is queued and its eta has been reached.
C3_NextJobEligible ==
    [][\A a \in AgentTypes :
          (get_next_job(a) /\ reply'.job # 0)
              => /\ jobs[reply'.job].status = "queued"
                 /\ jobs[reply'.job].eta <= now]_vars

\* C4: every change of a job's status is a transition of the documented
\* state machine; in particular a terminal status never changes.
C4_LegalTransitions ==
    [][\A j \in DOMAIN jobs :
          jobs'[j].status # jobs[j].status
              => <<jobs[j].status, jobs'[j].status>> \in Transitions]_vars

\* C5: cancelling a completed, failed or cancelled job is rejected with a
\* StateError and changes no field of the job; cancel sets the status to
\* cancelled only from queued or running.
C5_CancelTerminalRejected ==
    [][\A j \in DOMAIN jobs :
          cancel_job(j)
              => /\ jobs[j].status \in Terminal
                     => (jobs' = jobs /\ reply'.outcome = "StateError")
                 /\ jobs'[j].status # jobs[j].status
                     => jobs[j].status \in {"queued", "running"}]_vars

\* C6: for a job with max_retries = 3, the first and the second
\* mark_job_failed leave it retrying, the third leaves it failed, and from
\* then on it never has status retrying.
C6_ThirdFailureTerminal ==
    [][\A j \in DOMAIN jobs :
          jobs[j].max_retries = 3
              => /\ (jobs'[j].retries = jobs[j].retries + 1 /\ jobs'[j].retries \in {1, 2})
                        => jobs'[j].status = "retrying"
                 /\ (jobs'[j].retries = jobs[j].retries + 1 /\ jobs'[j].retries = 3)
                        => jobs'[j].status = "failed"
                 /\ jobs[j].retries >= 3 => jobs'[j].status # "retrying"]_vars

\* C6 witness: a job has failed three times and is failed
C6_Witness ==
    \E j \in DOMAIN jobs :
        jobs[j].max_retries = 3 /\ jobs[j].retries = 3 /\ jobs[j].status = "failed"

\* the indices of the votes of one kind
VotesOf(kind) == { i \in DOMAIN votes : votes[i].vote = kind }

\* sum of the confidences of the votes at the indices S, as <<n, d>>
RECURSIVE ConfSum(_)
ConfSum(S) ==
    IF S = {} THEN <<0, 1>>
    ELSE LET i == CHOOSE i \in S : TRUE
             rest == ConfSum(S \ {i})
         IN  << votes[i].confidence[1] * rest[2] + rest[1] * votes[i].confidence[2],
                votes[i].confidence[2] * rest[2] >>

\* a/b = c/d for rationals <<a, b>> and <<c, d>>
RatEq(x, y) == x[1] * y[2] = y[1] * x[2]

AcceptMajority == 2 * Cardinality(VotesOf("accept")) > Len(votes)

RejectMajority == 2 * Cardinality(VotesOf("reject")) > Len(votes)

\* C7: the decision is accept iff a > n/2, otherwise reject iff r > n/2,
\* otherwise more_info.
C7_DecisionByCounts ==
    consensus # <<>> =>
        /\ consensus[1].decision = "accept" <=> AcceptMajority
        /\ consensus[1].decision = "reject" <=> (~AcceptMajority /\ RejectMajority)
        /\ consensus[1].decision = "more_info" <=> (~AcceptMajority /\ ~RejectMajority)

\* C7 witness: each of the three decisions on three votes, none unanimous
C7_Witness ==
    /\ consensus # <<>>
    /\ Len(votes) = 3
    /\ VotesOf("accept") # {} /\ VotesOf("reject") # {} /\ VotesOf("more_info") # {}
    /\ consensus[1].decision = "more_info"

\* C8: an accept consensus carries the mean confidence of the accept votes
\* alone; accept 0.9, accept 0.8, reject 0.3 gives accept with 0.85.
C8_AcceptConfidence ==
    consensus # <<>> =>
        /\ consensus[1].decision = "accept"
              => RatEq(consensus[1].confidence,
                       << ConfSum(VotesOf("accept"))[1],
                          ConfSum(VotesOf("accept"))[2] * Cardinality(VotesOf("accept")) >>)
        /\ votes = << [vote |-> "accept", confidence |-> <<9, 10>>],
                      [vote |-> "accept", confidence |-> <<4, 5>>],
                      [vote |-> "reject", confidence |-> <<3, 10>>] >>
              => (consensus[1].decision = "accept" /\ RatEq(consensus[1].confidence, <<85, 100>>))

C8_Witness ==
    /\ consensus # <<>>
    /\ votes = << [vote |-> "accept", confidence |-> <<9, 10>>],
                  [vote |-> "accept", confidence |-> <<4, 5>>],
                  [vote |-> "reject", confidence |-> <<3, 10>>] >>

\* C9: a reject consensus carries 1 minus the mean confidence of the accept
\* votes (1 minus 0 without accept votes); reject 0.9, reject 0.8, accept 0.2
\* gives reject with 0.8.
C9_RejectConfidence ==
    consensus # <<>> =>
        /\ (consensus[1].decision = "reject" /\ VotesOf("accept") # {})
              => RatEq(consensus[1].confidence,
                       << ConfSum(VotesOf("accept"))[2] * Cardinality(VotesOf("accept"))
                             - ConfSum(VotesOf("accept"))[1],
                          ConfSum(VotesOf("accept"))[2] * Cardinality(VotesOf("accept")) >>)
        /\ (consensus[1].decision = "reject" /\ VotesOf("accept") = {})
              => RatEq(consensus[1].confidence, <<1, 1>>)
        /\ votes = << [vote |-> "reject", confidence |-> <<9, 10>>],
                      [vote |-> "reject", confidence |-> <<4, 5>>],
                      [vote |-> "accept", confidence |-> <<1, 5>>] >>
              => (consensus[1].decision = "reject" /\ RatEq(consensus[1].confidence, <<80, 100>>))

C9_Witness ==
    /\ consensus # <<>>
    /\ votes = << [vote |-> "reject", confidence |-> <<9, 10>>],
                  [vote |-> "reject", confidence |-> <<4, 5>>],
                  [vote |-> "accept", confidence |-> <<1, 5>>] >>

\* C10 as stated: without a strict majority for accept or for reject, the
\* empty vote list included, the result is more_info with confidence 0.5.
C10_NoMajorityHalf ==
    (consensus # <<>> /\ ~AcceptMajority /\ ~RejectMajority)
        => (consensus[1].decision = "more_info" /\ RatEq(consensus[1].confidence, <<1, 2>>))

\* C10 amended: for a non-empty vote list without a strict majority the
\* result is more_info with confidence 0.5; for the empty list it is
\* more_info with confidence 0.0.
C10_NoMajorityHalfUnlessEmpty ==
    (consensus # <<>> /\ ~AcceptMajority /\ ~RejectMajority)
        => /\ consensus[1].decision = "more_info"
           /\ votes # <<>> => RatEq(consensus[1].confidence, <<1, 2>>)
           /\ votes = <<>> => RatEq(consensus[1].confidence, <<0, 1>>)

\* C10 witness: the two-vote accept/reject tie has been decided
C10_Witness ==
    /\ consensus # <<>>
    /\ Len(votes) = 2
    /\ votes[1].vote = "accept" /\ votes[2].vote = "reject"

C20_LateOutcomeDiscarded ==
    [][\A t \in DOMAIN tasks :
          ( /\ tasks[t].job \in DOMAIN jobs
            /\ jobs[tasks[t].job].status = "cancelled"
            /\ \/ execute_success(t)
               \/ execute_bad_status(t)
               \/ execute_post_raises(t)
               \/ execute_except(t) )
              => LET j == tasks[t].job IN
                 /\ jobs'[j].status = "cancelled"
                 /\ jobs'[j].result = jobs[j].result
                 /\ jobs'[j].error_message = jobs[j].error_message
                 /\ jobs'[j].retries = jobs[j].retries
                 /\ jobs'[j].completed_at = jobs[j].completed_at]_vars

\* C19: a retrying job whose eta has been reached eventually is not retrying
\* any more (it is queued again and dispatched again), so every retrying job
\* leaves Retrying.
C19_RetryingLeaves ==
    \A j \in JobIds :
        (j \in DOMAIN jobs /\ jobs[j].status = "retrying" /\ jobs[j].eta <= now)
            ~> (j \in DOMAIN jobs /\ jobs[j].status # "retrying")

\* C11: initiate_debate on an existing finding: with an accept consensus the
\* finding is validated and carries the consensus confidence; with a reject
\* consensus it is a false positive; with a more_info consensus the findings
\* table is as before and only vote rows were added.
C11_DebateEffect ==
    [][\A f \in FindingIds, agents \in AgentLists :
          (f \in DOMAIN findings /\ initiate_debate(f, agents))
              => LET c == debate'[1].consensus IN
                 /\ c.decision = "accept"
                       => /\ findings'[f].status = "validated"
                          /\ findings'[f].confidence = c.confidence
                 /\ c.decision = "reject"
                       => findings'[f].status = "false_positive"
                 /\ c.decision = "more_info"
                       => /\ findings' = findings
                          /\ Len(vote_rows') = Len(vote_rows) + Len(agents)
                 /\ \A g \in DOMAIN findings : g # f => findings'[g] = findings[g]]_vars

\* C11 witness: a more_info debate on a finding an earlier debate validated
\* with a confidence that differs from the one the second debate computed
C11_Witness ==
    /\ debate # <<>>
    /\ debate[1].consensus.decision = "more_info"
    /\ debate[1].votes # <<>>
    /\ debate[1].final_status = "validated"
    /\ findings[debate[1].finding_id].status = "validated"
    /\ findings[debate[1].finding_id].confidence # debate[1].consensus.confidence

\* a rational <<n, d>> that lies in [0, 1]
InUnit(x) == x[2] > 0 /\ 0 <= x[1] /\ x[1] <= x[2]

\* C16: with findings created with a confidence in [0, 1], after any sequence
\* of debates and validator runs every finding's confidence, every stored
\* vote's confidence, and the confidence of every returned vote and of the
\* returned consensus lie in [0, 1].
C16_ConfidenceInUnit ==
    /\ \A f \in DOMAIN findings : InUnit(findings[f].confidence)
    /\ \A i \in DOMAIN vote_rows : InUnit(vote_rows[i].confidence)
    /\ debate # <<>>
          => /\ InUnit(debate[1].consensus.confidence)
             /\ \A i \in DOMAIN debate[1].votes : InUnit(debate[1].votes[i].confidence)

\* C16 witness: a debate accepted a finding unanimously, one of its votes
\* carrying the confidence an earlier validation had written to the finding,
\* and wrote a mean to the finding that no agent creates findings with
C16_Witness ==
    /\ debate # <<>>
    /\ Len(vote_rows) = 3
    /\ Len(debate[1].votes) = 2
    /\ debate[1].consensus.decision = "accept"
    /\ \E i \in DOMAIN debate[1].votes :
          /\ debate[1].votes[i].confidence = vote_rows[1].confidence
          /\ debate[1].votes[i].confidence # debate[1].consensus.confidence
    /\ \A f \in FindingIds : findings[f].confidence \notin FindingConfLevels

\* C17: a debate among k agents on a finding appends exactly k vote rows for
\* that finding, a validator run appends exactly one, and no step changes or
\* removes a row stored earlier.
C17_VotesAppendOnly ==
    [][/\ Len(vote_rows') >= Len(vote_rows)
       /\ \A i \in DOMAIN vote_rows : vote_rows'[i] = vote_rows[i]
       /\ \A f \in FindingIds, agents \in AgentLists :
             (f \in DOMAIN findings /\ initiate_debate(f, agents))
                 => /\ Len(vote_rows') = Len(vote_rows) + Len(agents)
                    /\ \A i \in 1..Len(agents) :
                          /\ vote_rows'[Len(vote_rows) + i].finding_id = f
                          /\ vote_rows'[Len(vote_rows) + i].agent_id = agents[i]
       /\ \A f \in FindingIds, primary \in BOOLEAN, secondary \in BOOLEAN :
             (f \in DOMAIN findings /\ validator_execute(f, primary, secondary))
                 => /\ Len(vote_rows') = Len(vote_rows) + 1
                    /\ vote_rows'[Len(vote_rows')].finding_id = f]_vars

\* C17 witness: two debates on the same finding, of two agents and of one,
\* and the rows of the first are still there after the second
C17_Witness ==
    /\ debate # <<>>
    /\ Len(debate[1].votes) = 1
    /\ Len(vote_rows) = 3
    /\ \A i \in DOMAIN vote_rows : vote_rows[i].finding_id = debate[1].finding_id
    /\ vote_rows[3].agent_id = debate[1].votes[1].agent_id
    /\ vote_rows[1].agent_id = "exploit-agent" /\ vote_rows[2].agent_id = "recon-agent"
    /\ vote_rows[1].vote # vote_rows[3].vote

\* C15: a request that names a finding or a job that has no row aborts with a
\* NotFound outcome and changes no job, finding or vote: cancel_job answers
\* 404, initiate_debate answers "Finding not found", and a task whose
\* mark_job_running, mark_job_completed or mark_job_failed finds no job stops
\* there instead of going on.
C15_NotFoundAborts ==
    [][/\ (cancel_job(UnknownJob) \/ \E agents \in AgentLists : initiate_debate(UnknownFinding, agents))
             => /\ reply'.outcome \in {"404", "Finding not found"}
                /\ UNCHANGED <<jobs, findings, vote_rows>>
       /\ \A t \in DOMAIN tasks :
             ( /\ tasks[t].job \notin DOMAIN jobs
               /\ \/ execute_start(t) \/ execute_success(t) \/ execute_bad_status(t)
                  \/ execute_post_raises(t) \/ execute_except(t) )
                 => /\ UNCHANGED <<jobs, findings, vote_rows>>
                    /\ tasks'[t].pc = "not found"]_vars

\* the place of a selected test case in the catalog
CatalogIndex(tc) == CHOOSE k \in DOMAIN wstg_test_cases : wstg_test_cases[k] = tc

\* C13: test_cases is in ascending order of priority, and two test cases of
\* equal priority are in the order in which the catalog lists them.
C13_SortedStable ==
    generated_plan # <<>> =>
        \A i, j \in DOMAIN generated_plan[1].test_cases :
            i < j => LET a == generated_plan[1].test_cases[i]
                         b == generated_plan[1].test_cases[j]
                     IN  /\ a.priority <= b.priority
                         /\ a.priority = b.priority => CatalogIndex(a) < CatalogIndex(b)

\* C13 witness: a plan with the authentication tests, where test cases of
\* different categories and of the same category share a priority
C13_Witness ==
    /\ generated_plan # <<>>
    /\ \E i, j \in DOMAIN generated_plan[1].test_cases :
          /\ i < j
          /\ generated_plan[1].test_cases[i].priority = generated_plan[1].test_cases[j].priority
          /\ generated_plan[1].test_cases[i].category = "Authentication"
          /\ generated_plan[1].test_cases[j].category = "Session Management"
    /\ \E i \in DOMAIN generated_plan[1].test_cases :
          generated_plan[1].test_cases[i].priority < generated_plan[1].test_cases[Len(generated_plan[1].test_cases)].priority

\* the wstg ids of the catalog entries of the given categories
CatalogIds(categories) ==
    { wstg_test_cases[k].wstg_id : k \in { i \in DOMAIN wstg_test_cases :
                                              wstg_test_cases[i].category \in categories } }

\* the wstg ids of a plan's test cases
PlanIds == { generated_plan[1].test_cases[i].wstg_id : i \in DOMAIN generated_plan[1].test_cases }

\* C14: a plan holds every Information Gathering and every Input Validation
\* test case of the catalog whatever the flag, the Authentication and Session
\* Management test cases exactly when has_credentials is true (in Python's
\* sense of truth), nothing of another category, and nothing twice.
C14_SelectedCategories ==
    generated_plan # <<>> =>
        /\ PlanIds = CatalogIds({"Information Gathering", "Input Validation"})
                        \cup (IF Truthy(config)
                              THEN CatalogIds({"Authentication", "Session Management"})
                              ELSE {})
        /\ config \in {"absent", "false"}
              => PlanIds \cap CatalogIds({"Authentication", "Session Management"}) = {}
        /\ config = "true"
              => CatalogIds({"Authentication", "Session Management"}) \subseteq PlanIds
        /\ Cardinality(PlanIds) = Len(generated_plan[1].test_cases)

\* C14 witness: a plan made without credentials
C14_Witness ==
    /\ generated_plan # <<>>
    /\ config = "false"
    /\ Len(generated_plan[1].test_cases) = 7

\* C21: a worker call that answers with a non-success status leaves the job
\* as a worker call that times out does: the timeout applies one
\* mark_job_failed, and so does the handling of the bad status up to its
\* raise, so the rest of that handling changes neither status, retries nor
\* eta of the job.
C21_BadStatusAsTimeout ==
    [][\A t \in DOMAIN tasks :
          (tasks[t].job \in DOMAIN jobs /\ execute_except(t))
              => LET j == tasks[t].job IN
                 /\ jobs'[j].status = jobs[j].status
                 /\ jobs'[j].retries = jobs[j].retries
                 /\ jobs'[j].eta = jobs[j].eta]_vars

\* the execute_agent_job invocations for a job that failed or are failing
FailedInvocations(j) ==
    { t \in DOMAIN tasks : tasks[t].job = j /\ tasks[t].pc \in {"raising", "raised"} }

\* C28: each failing invocation of execute_agent_job adds exactly one to the
\* job's retries, so retries never exceeds the number of invocations that
\* failed.
C28_OneFailurePerInvocation ==
    \A j \in DOMAIN jobs : jobs[j].retries <= Cardinality(FailedInvocations(j))

\* the queued jobs whose eta has been reached and that match the filter
EligibleJobs(agent_type) ==
    { j \in DOMAIN jobs :
        /\ jobs[j].status = "queued"
        /\ jobs[j].eta <= now
        /\ agent_type # None => AgentLike(jobs[j].agent_id, agent_type) }

\* C22: get_next_job returns, among the queued jobs whose eta has been
\* reached and that match the filter, one of highest priority and, at equal
\* priority, of earliest created_at; it returns none exactly when there is
\* no such job.
C22_NextJobBestEligible ==
    [][\A a \in AgentTypes :
          get_next_job(a)
              => IF EligibleJobs(a) = {}
                 THEN reply'.job = 0
                 ELSE /\ reply'.job \in EligibleJobs(a)
                      /\ \A k \in EligibleJobs(a) :
                            \/ jobs[reply'.job].priority > jobs[k].priority
                            \/ /\ jobs[reply'.job].priority = jobs[k].priority
                               /\ jobs[reply'.job].created_at <= jobs[k].created_at]_vars

\* C29: with workers that run every task they are given and an agent runner
\* that always answers in the end, every scheduled job that was handed to
\* the dispatcher eventually is completed, failed or cancelled.
C29_EveryJobTerminates ==
    \A j \in JobIds :
        (j \in DOMAIN jobs /\ \E t \in DOMAIN tasks : tasks[t].job = j)
            ~> (j \in DOMAIN jobs /\ jobs[j].status \in Terminal)

\* C24: a validator run leaves the finding with the status and the confidence
\* that the consensus over its one vote, applied to the finding as
\* initiate_debate applies it, would leave it with.
C24_ValidatorAsConsensus ==
    [][\A f \in FindingIds, primary \in BOOLEAN, secondary \in BOOLEAN :
          (f \in DOMAIN findings /\ validator_execute(f, primary, secondary))
              => LET v == vote_rows'[Len(vote_rows')]
                     c == calculate_consensus(<<[vote |-> v.vote, confidence |-> v.confidence]>>)
                     by_consensus == apply_consensus(findings[f], c)
                 IN  /\ findings'[f].status = by_consensus.status
                     /\ findings'[f].confidence = by_consensus.confidence]_vars

\* C25: a debate in which a write fails stores none of its votes and changes
\* no finding.
C25_DebateAtomic ==
    [][\A f \in FindingIds, agents \in AgentLists, failing_commit \in {1, 2} :
          initiate_debate_commit_fails(f, agents, failing_commit)
              => /\ vote_rows' = vote_rows
                 /\ findings' = findings]_vars

\* C26: every step that changes a finding's status is a debate on that
\* finding whose consensus decided accept (new status validated) or reject
\* (new status false_positive).
C26_StatusOnlyByConsensus ==
    [][\A f \in DOMAIN findings :
          findings'[f].status # findings[f].status
              => \E agents \in AgentLists :
                    /\ initiate_debate(f, agents)
                    /\ \/ /\ debate'[1].consensus.decision = "accept"
                          /\ findings'[f].status = "validated"
                       \/ /\ debate'[1].consensus.decision = "reject"
                          /\ findings'[f].status = "false_positive"]_vars

\* C23: a scan of a project with g targets whose plan has t test cases
\* creates t * g jobs, each queued, with retries 0, the priority of a test
\* case of the plan and eta = now + 5 * priority.
C23_JobPerTestCaseAndTarget ==
    [][\A p \in ProjectIds :
          orchestrate_scan(p)
              => LET plan == Schedulable(generate_plan(p, targets, config).test_cases) IN
                 /\ Len(jobs') = Len(jobs) + Len(plan) * targets
                 /\ \A j \in DOMAIN jobs' \ DOMAIN jobs :
                       /\ jobs'[j].status = "queued"
                       /\ jobs'[j].retries = 0
                       /\ \E k \in DOMAIN plan : jobs'[j].priority = plan[k].priority
                       /\ jobs'[j].eta = now + SpacingMinutes * jobs'[j].priority]_vars

\* the places <<phase, position>> at which a plan's phases list a wstg id
PhasePlaces(id) ==
    { pl \in (DOMAIN generated_plan[1].phases) \X (1..Len(generated_plan[1].test_cases)) :
        /\ pl[2] \in DOMAIN generated_plan[1].phases[pl[1]].tests
        /\ generated_plan[1].phases[pl[1]].tests[pl[2]] = id }

\* the position of a wstg id in a plan's test_cases
PlanIndex(id) ==
    CHOOSE i \in DOMAIN generated_plan[1].test_cases :
        generated_plan[1].test_cases[i].wstg_id = id

\* C27: the phases partition the plan's test cases by category: each test
\* case is listed once, in one phase; test cases of one category are in the
\* same phase; a phase lists only test cases of the plan, in the order in
\* which test_cases has them.
C27_PhasesPartition ==
    generated_plan # <<>> =>
        LET plan == generated_plan[1] IN
        /\ \A i \in DOMAIN plan.test_cases :
              Cardinality(PhasePlaces(plan.test_cases[i].wstg_id)) = 1
        /\ \A i, j \in DOMAIN plan.test_cases :
              plan.test_cases[i].category = plan.test_cases[j].category
                  => \E ph \in DOMAIN plan.phases :
                        \E x, y \in DOMAIN plan.phases[ph].tests :
                            /\ plan.phases[ph].tests[x] = plan.test_cases[i].wstg_id
                            /\ plan.phases[ph].tests[y] = plan.test_cases[j].wstg_id
        /\ \A ph \in DOMAIN plan.phases :
              /\ \A x \in DOMAIN plan.phases[ph].tests : plan.phases[ph].tests[x] \in PlanIds
              /\ \A x, y \in DOMAIN plan.phases[ph].tests :
                    x < y => PlanIndex(plan.phases[ph].tests[x]) < PlanIndex(plan.phases[ph].tests[y])

\* C27 witness: a plan with credentials, whose second phase lists the two
\* authentication tests and the session test and whose other phases are not
\* empty
C27_Witness ==
    /\ generated_plan # <<>>
    /\ Len(generated_plan[1].test_cases) = 10
    /\ Len(generated_plan[1].phases[1].tests) = 2
    /\ generated_plan[1].phases[2].tests = <<"WSTG-ATHN-01", "WSTG-ATHN-02", "WSTG-SESS-01">>
    /\ Len(generated_plan[1].phases[3].tests) = 5

\* C30: get_scan_status succeeds whatever the statuses of the project's jobs
\* are, its status counts sum to total_jobs, which is the number of the
\* project's jobs, and it reports is_complete only when every job of the
\* project is completed, failed or cancelled (never while one is retrying).
C30_ScanStatusTotal ==
    [][ \A p \in ProjectIds :
          get_scan_status(p) =>
            /\ reply'.outcome = "ok"
            /\ reply'.total_jobs = Cardinality(ProjectJobs(p))
            /\ reply'.status_counts["queued"] + reply'.status_counts["running"]
                 + reply'.status_counts["completed"] + reply'.status_counts["failed"]
                 + reply'.status_counts["cancelled"] = reply'.total_jobs
            /\ reply'.is_complete =>
                  \A j \in ProjectJobs(p) : jobs[j].status \in Terminal ]_vars

====
